---------------------------- MODULE Spec2Model ----------------------------
(***************************************************************************)
(* Model of HotSpot's BarrierSet core:                                     *)
(*   src/hotspot/share/gc/shared/barrierSet.cpp                            *)
(*       BarrierSet::set_barrier_set, the two arraycopy exception          *)
(*       throwers, gc_barrier_stubs_init                                   *)
(*   src/hotspot/share/gc/shared/barrierSet.inline.hpp                     *)
(*       BarrierSet::AccessBarrier::oop_arraycopy_in_heap                  *)
(*                                                                         *)
(* Addresses are element indices into an array's body (one unit per oop),  *)
(* so a T* is a natural number and p++ is p + 1.  Source and destination   *)
(* are distinct array objects.                                             *)
(* The two build macros that change the compiled code, ASSERT and ZERO,    *)
(* are chosen once in Init and never change.                               *)
(***************************************************************************)
EXTENDS Naturals, Sequences, FiniteSets

(* ------------------------------ bounds -------------------------------- *)

\* Length of every array object of the model.
ArrLen == 3
\* set_barrier_set is called at most this many times in a behaviour.
MaxInitCalls == 2
\* gc_barrier_stubs_init is called at most this many times in a behaviour.
MaxHookCalls == 2

(* ------------------------- the type system ---------------------------- *)

NULL == "NULL"

Klasses == {"Object", "String", "B", "C"}

\* Direct superclass: C extends B, everything else extends Object.
super(k) == IF k = "C" THEN "B" ELSE "Object"

\* Klass::is_subtype_of: reflexive, transitive closure of super.
is_subtype_of(k, other) ==
    \/ k = other
    \/ super(k) = other
    \/ super(super(k)) = other

\* Klass::external_name
external_name(k) ==
    CASE k = "Object" -> "java.lang.Object"
      [] k = "String" -> "java.lang.String"
      [] k = "B"      -> "B"
      [] k = "C"      -> "C"

(* ------------------------------- oops --------------------------------- *)

\* An oop is the null reference or an object with a runtime klass and an
\* identity.
null_oop == [klass |-> NULL, id |-> 0]

\* CompressedOops::is_null
is_null(elem) == elem.klass = NULL

\* oopDesc::is_instanceof_or_null
is_instanceof_or_null(elem, klass) ==
    is_null(elem) \/ is_subtype_of(elem.klass, klass)

Indices == 0 .. (ArrLen - 1)

\* ObjArrayKlass::element_klass of an array object
element_klass(obj) == obj.element_klass

\* The destination before the call: one distinct object of the declared
\* element klass per index.
FreshDst(k) ==
    [element_klass |-> k,
     body |-> [j \in Indices |-> [klass |-> k, id |-> 100 + j]]]

\* The klasses assignable to k.
SubKlasses(k) == {c \in Klasses : is_subtype_of(c, k)}

\* Every content a type-safe heap allows in an array with declared element
\* klass k: each element null or an instance of k; identities tell the
\* elements apart.
SrcArrays(k) ==
    {[element_klass |-> k,
      body |-> [j \in Indices |->
                  IF kf[j] = NULL THEN null_oop
                  ELSE [klass |-> kf[j], id |-> 1 + j]]] :
        kf \in [Indices -> {NULL} \cup SubKlasses(k)]}

(* ---------------------------- decorators ------------------------------ *)

ARRAYCOPY_CHECKCAST == "ARRAYCOPY_CHECKCAST"
ARRAYCOPY_NOTNULL == "ARRAYCOPY_NOTNULL"

DecoratorSets == SUBSET {ARRAYCOPY_CHECKCAST, ARRAYCOPY_NOTNULL}

\* HasDecorator<decorators, d>::value
HasDecorator(decs, d) == d \in decs

(* ------------------------------ state --------------------------------- *)

VARIABLES
    ASSERT_on,       \* build: ASSERT defined (assert() compiled in)
    ZERO_on,         \* build: ZERO defined
    _barrier_set,    \* BarrierSet::_barrier_set
    on_thread_list,  \* JavaThread::current()->on_thread_list()
    notifications,   \* calls received by barrier sets, in order
    stubs_init,      \* BarrierSetAssembler::barrier_stubs_init calls
    vm,              \* "running" | "aborted" (assert failure, crash)
    init_calls,      \* calls of set_barrier_set so far
    hook_calls,      \* calls of gc_barrier_stubs_init so far
    pc,              \* arraycopy: "idle" | "loop" | "returned"
    decorators,      \* template parameter of the running arraycopy
    src_obj, dst_obj,\* the two array objects
    dst_before,      \* dst_obj as it was when the call started
    src0, dst0, length, \* resolved start addresses and element count
    src, dst, end,   \* the loop's moving pointers and its limit
    dst_klass,       \* the loop's cached destination element klass
    pending,         \* exceptions raised by the call, in order
    writes           \* stores into the destination, in order

startup_vars == <<ASSERT_on, ZERO_on, _barrier_set, on_thread_list,
                  notifications, stubs_init, vm, init_calls, hook_calls>>

copy_vars == <<pc, decorators, src_obj, dst_obj, dst_before, src0, dst0,
               length, src, dst, end, dst_klass, pending, writes>>

vars == <<startup_vars, copy_vars>>

BarrierSets == {"bs1", "bs2"}

NoArray == [element_klass |-> NULL, body |-> [j \in Indices |-> null_oop]]

CopyIdle ==
    /\ pc = "idle"
    /\ decorators = {}
    /\ src_obj = NoArray
    /\ dst_obj = NoArray
    /\ dst_before = NoArray
    /\ src0 = 0 /\ dst0 = 0 /\ length = 0
    /\ src = 0 /\ dst = 0 /\ end = 0
    /\ dst_klass = NULL
    /\ pending = <<>>
    /\ writes = <<>>

Init ==
    /\ ASSERT_on \in BOOLEAN
    /\ ZERO_on \in BOOLEAN
    /\ _barrier_set = NULL
    /\ on_thread_list = FALSE
    /\ notifications = <<>>
    /\ stubs_init = 0
    /\ vm = "running"
    /\ init_calls = 0
    /\ hook_calls = 0
    /\ CopyIdle

(* ----------------- barrierSet.cpp: startup operations ------------------ *)

\* assert(p, msg) from utilities/debug.hpp: compiled in only when ASSERT is
\* defined; a failing assert reports and aborts the VM.
AssertFails(p) == ASSERT_on /\ ~p

\* barrierSet.cpp:38  assert(_barrier_set == NULL, "Already initialized")
AlreadyInitialized == AssertFails(_barrier_set = NULL)

\* barrierSet.cpp:50  assert(!JavaThread::current()->on_thread_list(), ...)
MainThreadOnList == AssertFails(~on_thread_list)

\* barrierSet.cpp:52  _barrier_set->on_thread_create(Thread::current()),
\* as the receiving barrier set sees it: which callback, on which instance,
\* for which thread, and what BarrierSet::barrier_set() returns meanwhile.
on_thread_create(receiver, thread, installed) ==
    [kind |-> "on_thread_create", bs |-> receiver, thread |-> thread,
     barrier_set |-> installed]

\* Mutant: the main thread is announced before _barrier_set is assigned.
set_barrier_set_notify_first(barrier_set) ==
    /\ vm = "running"
    /\ init_calls < MaxInitCalls
    /\ init_calls' = init_calls + 1
    /\ IF AlreadyInitialized
       THEN /\ vm' = "aborted"
            /\ UNCHANGED <<_barrier_set, notifications>>
       ELSE /\ _barrier_set' = barrier_set
            /\ IF MainThreadOnList
               THEN /\ vm' = "aborted"
                    /\ UNCHANGED notifications
               ELSE /\ notifications' =
                         Append(notifications,
                                on_thread_create(barrier_set, "main",
                                                 _barrier_set))
                    /\ vm' = vm
    /\ UNCHANGED <<ASSERT_on, ZERO_on, on_thread_list, stubs_init,
                   hook_calls, copy_vars>>

\* BarrierSet::set_barrier_set.  The caller is the main thread, the only
\* thread that exists at this point, and it is a JavaThread (line 48).
set_barrier_set(barrier_set) ==
    /\ vm = "running"
    /\ init_calls < MaxInitCalls
    /\ init_calls' = init_calls + 1
    /\ IF AlreadyInitialized
       THEN /\ vm' = "aborted"
            /\ UNCHANGED <<_barrier_set, notifications>>
       ELSE /\ _barrier_set' = barrier_set
            /\ IF MainThreadOnList
               THEN /\ vm' = "aborted"
                    /\ UNCHANGED notifications
               ELSE /\ notifications' =
                         Append(notifications,
                                on_thread_create(_barrier_set', "main",
                                                 _barrier_set'))
                    /\ vm' = vm
    /\ UNCHANGED <<ASSERT_on, ZERO_on, on_thread_list, stubs_init,
                   hook_calls, copy_vars>>

\* Threads::add for the main thread: the thread registry starts tracking it.
Threads_add ==
    /\ vm = "running"
    /\ ~on_thread_list
    /\ on_thread_list' = TRUE
    /\ UNCHANGED <<ASSERT_on, ZERO_on, _barrier_set, notifications,
                   stubs_init, vm, init_calls, hook_calls, copy_vars>>

\* BarrierSet::barrier_set_assembler: a barrier set owns an assembler in
\* every build but ZERO, where make_barrier_set_assembler yields NULL.
barrier_set_assembler(bs) == IF ZERO_on THEN NULL ELSE "BarrierSetAssembler"

\* Mutant: #ifdef ZERO for #ifndef ZERO.
gc_barrier_stubs_init_ifdef ==
    /\ vm = "running"
    /\ hook_calls < MaxHookCalls
    /\ hook_calls' = hook_calls + 1
    /\ IF ~ZERO_on
       THEN UNCHANGED <<stubs_init, vm>>
       ELSE vm' = "aborted" /\ UNCHANGED stubs_init
    /\ UNCHANGED <<ASSERT_on, ZERO_on, _barrier_set, on_thread_list,
                   notifications, init_calls, copy_vars>>

\* gc_barrier_stubs_init.  Without ZERO the body dereferences bs, so a call
\* before set_barrier_set crashes the VM.
gc_barrier_stubs_init ==
    /\ vm = "running"
    /\ hook_calls < MaxHookCalls
    /\ hook_calls' = hook_calls + 1
    /\ IF ZERO_on
       THEN UNCHANGED <<stubs_init, vm>>
       ELSE IF _barrier_set = NULL
            THEN vm' = "aborted" /\ UNCHANGED stubs_init
            ELSE stubs_init' = stubs_init + 1 /\ vm' = vm
    /\ UNCHANGED <<ASSERT_on, ZERO_on, _barrier_set, on_thread_list,
                   notifications, init_calls, copy_vars>>

StartupNext ==
    \/ \E bs \in BarrierSets : set_barrier_set(bs)
    \/ Threads_add
    \/ gc_barrier_stubs_init

StartupSpec == Init /\ [][StartupNext]_vars

(* ------------ barrierSet.cpp: the arraycopy exception throwers --------- *)

\* BarrierSet::throw_array_null_pointer_store_exception: the exception
\* THROW_MSG leaves pending; the message is the printed pieces in order.
throw_array_null_pointer_store_exception(s_obj, d_obj) ==
    LET bound == element_klass(d_obj)
    IN  [type |-> "java.lang.NullPointerException",
         message |-> <<"arraycopy: can not copy null values into ",
                       external_name(bound), "[]">>]

\* Mutant: the subtype test runs the other way round.
throw_array_store_exception_reversed(s_obj, d_obj) ==
    LET bound == element_klass(d_obj)
        stype == element_klass(s_obj)
    IN  [type |-> "java.lang.ArrayStoreException",
         message |->
            IF ~is_subtype_of(stype, bound)
            THEN <<"arraycopy: type mismatch: can not copy ",
                   external_name(stype), "[] into ",
                   external_name(bound), "[]">>
            ELSE <<"arraycopy: element type mismatch: can not cast one of the elements of ",
                   external_name(stype),
                   "[] to the type of the destination array, ",
                   external_name(bound)>>]

\* Mutant: one message shape for every mismatch.
throw_array_store_exception_nosplit(s_obj, d_obj) ==
    LET bound == element_klass(d_obj)
        stype == element_klass(s_obj)
    IN  [type |-> "java.lang.ArrayStoreException",
         message |-> <<"arraycopy: type mismatch: can not copy ",
                       external_name(stype), "[] into ",
                       external_name(bound), "[]">>]

\* BarrierSet::throw_array_store_exception
throw_array_store_exception(s_obj, d_obj) ==
    LET bound == element_klass(d_obj)
        stype == element_klass(s_obj)
    IN  [type |-> "java.lang.ArrayStoreException",
         message |->
            IF ~is_subtype_of(bound, stype)
            THEN <<"arraycopy: type mismatch: can not copy ",
                   external_name(stype), "[] into ",
                   external_name(bound), "[]">>
            ELSE <<"arraycopy: element type mismatch: can not cast one of the elements of ",
                   external_name(stype),
                   "[] to the type of the destination array, ",
                   external_name(bound)>>]

(* ------- barrierSet.inline.hpp: oop_arraycopy_in_heap, step by step ---- *)

\* arrayOopDesc::obj_offset_to_raw for an in-heap array: the address of the
\* element at the given offset of obj's body (raw is NULL in that case).
obj_offset_to_raw(obj, offset, raw) == offset

\* Raw::oop_arraycopy(NULL, 0, src, NULL, 0, dst, length): the bulk copy
\* of length oops from address s of body sb to address d of body db.
Raw_oop_arraycopy(sb, s, db, d, len) ==
    [j \in Indices |->
        IF d <= j /\ j < d + len THEN sb[s + (j - d)] ELSE db[j]]

\* The stores a bulk copy of len oops to address d makes, lowest first.
RawWrites(d, len) ==
    [j \in 1 .. len |-> [addr |-> d + (j - 1), via |-> "Raw::oop_arraycopy"]]

\* Mutant: the bulk copy is asked for one element too few.
CovariantCopy_short(s_obj, s, d_obj, d, len) ==
    Raw_oop_arraycopy(s_obj.body, s, d_obj.body, d,
                      IF len > 0 THEN len - 1 ELSE 0)

\* inline.hpp:47  Raw::oop_arraycopy(NULL, 0, src, NULL, 0, dst, length):
\* the destination body after the unchecked copy.
CovariantCopy(s_obj, s, d_obj, d, len) ==
    Raw_oop_arraycopy(s_obj.body, s, d_obj.body, d, len)

\* Mutant: || for &&, the unchecked path is taken unless both flags are set.
Covariant_either(decs) ==
    \/ ~HasDecorator(decs, ARRAYCOPY_CHECKCAST)
    \/ ~HasDecorator(decs, ARRAYCOPY_NOTNULL)

\* inline.hpp:44-45  neither ARRAYCOPY_CHECKCAST nor ARRAYCOPY_NOTNULL
Covariant(decs) ==
    /\ ~HasDecorator(decs, ARRAYCOPY_CHECKCAST)
    /\ ~HasDecorator(decs, ARRAYCOPY_NOTNULL)

\* Mutant: the null test is compiled in under the wrong decorator.
NullCheckFails_wrongflag(decs, elem) ==
    HasDecorator(decs, ARRAYCOPY_CHECKCAST) /\ is_null(elem)

\* inline.hpp:55  the null test of one loop iteration
NullCheckFails(decs, elem) ==
    HasDecorator(decs, ARRAYCOPY_NOTNULL) /\ is_null(elem)

\* Mutant: is_instanceof for is_instanceof_or_null, so a null fails the cast.
CastCheckFails_nonull(decs, elem, klass) ==
    /\ HasDecorator(decs, ARRAYCOPY_CHECKCAST)
    /\ (is_null(elem) \/ ~is_instanceof_or_null(elem, klass))

\* inline.hpp:59-60  the cast test of one loop iteration
CastCheckFails(decs, elem, klass) ==
    /\ HasDecorator(decs, ARRAYCOPY_CHECKCAST)
    /\ ~is_instanceof_or_null(elem, klass)

\* inline.hpp:38-52  entry: resolve the addresses, then either copy
\* without checks and return, or set up the checking loop.
oop_arraycopy_in_heap(decs, s_obj, s_off, d_obj, d_off, len) ==
    LET s == obj_offset_to_raw(s_obj, s_off, NULL)
        d == obj_offset_to_raw(d_obj, d_off, NULL)
    IN  /\ vm = "running"
        /\ pc = "idle"
        /\ decorators' = decs
        /\ src_obj' = s_obj
        /\ dst_before' = d_obj
        /\ src0' = s /\ dst0' = d /\ length' = len
        /\ pending' = <<>>
        /\ IF Covariant(decs)
           THEN /\ dst_obj' = [d_obj EXCEPT
                                 !.body = CovariantCopy(s_obj, s, d_obj, d,
                                                        len)]
                /\ writes' = RawWrites(d, len)
                /\ pc' = "returned"
                /\ UNCHANGED <<src, dst, end, dst_klass>>
           ELSE /\ dst_obj' = d_obj
                /\ writes' = <<>>
                /\ dst_klass' = element_klass(d_obj)
                /\ src' = s /\ dst' = d /\ end' = s + len
                /\ pc' = "loop"
        /\ UNCHANGED startup_vars

\* inline.hpp:53  the loop condition fails: fall off the end and return
loop_exit ==
    /\ vm = "running"
    /\ pc = "loop"
    /\ ~(src < end)
    /\ pc' = "returned"
    /\ UNCHANGED <<decorators, src_obj, dst_obj, dst_before, src0, dst0,
                   length, src, dst, end, dst_klass, pending, writes,
                   startup_vars>>

\* inline.hpp:54-58  a null element where nulls are forbidden
loop_null ==
    /\ vm = "running"
    /\ pc = "loop"
    /\ src < end
    /\ NullCheckFails(decorators, src_obj.body[src])
    /\ pending' = Append(pending,
                         throw_array_null_pointer_store_exception(src_obj,
                                                                  dst_obj))
    /\ pc' = "returned"
    /\ UNCHANGED <<decorators, src_obj, dst_obj, dst_before, src0, dst0,
                   length, src, dst, end, dst_klass, writes, startup_vars>>

\* inline.hpp:59-63  an element that is not an instance of dst_klass
loop_cast ==
    /\ vm = "running"
    /\ pc = "loop"
    /\ src < end
    /\ ~NullCheckFails(decorators, src_obj.body[src])
    /\ CastCheckFails(decorators, src_obj.body[src], dst_klass)
    /\ pending' = Append(pending,
                         throw_array_store_exception(src_obj, dst_obj))
    /\ pc' = "returned"
    /\ UNCHANGED <<decorators, src_obj, dst_obj, dst_before, src0, dst0,
                   length, src, dst, end, dst_klass, writes, startup_vars>>

\* Mutant: the store comes before the checks of the element.
loop_store_unchecked ==
    /\ vm = "running"
    /\ pc = "loop"
    /\ src < end
    /\ dst_obj' = [dst_obj EXCEPT !.body[dst] = src_obj.body[src]]
    /\ writes' = Append(writes, [addr |-> dst, via |-> "*dst = elem"])
    /\ src' = src + 1
    /\ dst' = dst + 1
    /\ UNCHANGED <<pc, decorators, src_obj, dst_before, src0, dst0, length,
                   end, dst_klass, pending, startup_vars>>

\* inline.hpp:64 and the loop's increment: *dst = elem; src++, dst++
loop_store ==
    /\ vm = "running"
    /\ pc = "loop"
    /\ src < end
    /\ ~NullCheckFails(decorators, src_obj.body[src])
    /\ ~CastCheckFails(decorators, src_obj.body[src], dst_klass)
    /\ dst_obj' = [dst_obj EXCEPT !.body[dst] = src_obj.body[src]]
    /\ writes' = Append(writes, [addr |-> dst, via |-> "*dst = elem"])
    /\ src' = src + 1
    /\ dst' = dst + 1
    /\ UNCHANGED <<pc, decorators, src_obj, dst_before, src0, dst0, length,
                   end, dst_klass, pending, startup_vars>>

\* The caller takes the result (and any pending exception); the next call
\* starts from scratch.
arraycopy_done ==
    /\ vm = "running"
    /\ pc = "returned"
    /\ pc' = "idle"
    /\ decorators' = {}
    /\ src_obj' = NoArray
    /\ dst_obj' = NoArray
    /\ dst_before' = NoArray
    /\ src0' = 0 /\ dst0' = 0 /\ length' = 0
    /\ src' = 0 /\ dst' = 0 /\ end' = 0
    /\ dst_klass' = NULL
    /\ pending' = <<>>
    /\ writes' = <<>>
    /\ UNCHANGED startup_vars

\* The calls a type-safe heap and an in-bounds caller can make.
CopyCall ==
    /\ vm = "running"
    /\ pc = "idle"
    /\ \E decs \in DecoratorSets, sk \in Klasses, dk \in Klasses,
          len \in 0 .. ArrLen :
       \E s_obj \in SrcArrays(sk),
          s_off \in 0 .. (ArrLen - len), d_off \in 0 .. (ArrLen - len) :
           oop_arraycopy_in_heap(decs, s_obj, s_off, FreshDst(dk), d_off,
                                 len)

CopyNext ==
    \/ CopyCall
    \/ loop_exit
    \/ loop_null
    \/ loop_cast
    \/ loop_store
    \/ arraycopy_done

\* oop_arraycopy_in_heap has no assert and no code under ZERO, so one build
\* stands for all of them.
CopyInit == Init /\ ~ASSERT_on /\ ~ZERO_on

CopySpec == CopyInit /\ [][CopyNext]_vars

\* Every operation runs only while the VM is alive: after a failed assert
\* or a crash nothing executes any more.  Apart from that the startup
\* operations and the arraycopy share no variable; each property below is
\* checked under the half it is about.
Next == StartupNext \/ CopyNext

Spec == Init /\ [][Next]_vars

(* ======================= properties: arraycopy ========================= *)

\* The copy range, relative to the resolved start addresses.
Range == 0 .. (length - 1)
SrcAt(j) == src_obj.body[src0 + j]
DstAt(j) == dst_obj.body[dst0 + j]
DstBeforeAt(j) == dst_before.body[dst0 + j]
Bound == dst_before.element_klass
SType == src_obj.element_klass

IsNullAt(j) == SrcAt(j) = null_oop
NotAssignableAt(j) ==
    SrcAt(j) # null_oop /\ ~is_subtype_of(SrcAt(j).klass, Bound)

\* The least index of the range in S, or length when S holds none.
FirstIn(S) ==
    IF \E j \in Range : j \in S
    THEN CHOOSE j \in Range : j \in S /\ \A m \in 0 .. (j - 1) : m \notin S
    ELSE length

FirstNull == FirstIn({j \in Range : IsNullAt(j)})
FirstNotAssignable == FirstIn({j \in Range : NotAssignableAt(j)})

PrefixCopied(k) == \A j \in 0 .. (k - 1) : DstAt(j) = SrcAt(j)
SuffixUntouched(k) == \A j \in k .. (length - 1) : DstAt(j) = DstBeforeAt(j)
FullyCopied == \A j \in Range : DstAt(j) = SrcAt(j)

Names(msg, name) == \E q \in 1 .. Len(msg) : msg[q] = name

WholeArrayText == "arraycopy: type mismatch: can not copy "
ElementText ==
    "arraycopy: element type mismatch: can not cast one of the elements of "

\* C1: with ARRAYCOPY_NOTNULL set, a source whose first null is at index k
\* (no element before k failing an enabled cast check) leaves
\* dst[0..k) = src[0..k), dst[k..n) as before, and exactly one
\* NullPointerException whose message names the destination's declared
\* element type; a source without nulls (and without cast failures) is
\* copied as the unchecked copy does, with no exception.
C1_NullsForbidden ==
    (pc = "returned" /\ ARRAYCOPY_NOTNULL \in decorators) =>
        LET k == FirstNull
            castOk(m) == ARRAYCOPY_CHECKCAST \in decorators
                            => ~NotAssignableAt(m)
        IN  /\ (k < length /\ \A m \in 0 .. (k - 1) : castOk(m)) =>
                  /\ PrefixCopied(k)
                  /\ SuffixUntouched(k)
                  /\ Len(pending) = 1
                  /\ pending[1].type = "java.lang.NullPointerException"
                  /\ Names(pending[1].message, external_name(Bound))
            /\ (k = length /\ \A m \in Range : castOk(m)) =>
                  /\ dst_obj.body = Raw_oop_arraycopy(src_obj.body, src0,
                                                      dst_before.body, dst0,
                                                      length)
                  /\ pending = <<>>

\* C1 witness: a three-element copy stopped by a null at index 1 of a
\* source whose declared type differs from the destination's.
C1_Witness ==
    /\ pc = "returned"
    /\ ARRAYCOPY_NOTNULL \in decorators
    /\ length = 3
    /\ FirstNull = 1
    /\ SType # Bound
    /\ Len(pending) = 1
    /\ DstAt(0) = SrcAt(0)

\* C2: with only ARRAYCOPY_CHECKCAST set, a source whose elements are all
\* null or instances of the destination's element type is copied fully
\* with no exception; otherwise, with k the first non-null element that is
\* no instance, dst[0..k) = src[0..k), dst[k..n) is as before and exactly
\* one ArrayStoreException is raised.  A null never raises.
C2_CastCheck ==
    (pc = "returned" /\ decorators = {ARRAYCOPY_CHECKCAST}) =>
        LET k == FirstNotAssignable
        IN  /\ k = length => (FullyCopied /\ pending = <<>>)
            /\ k < length =>
                  /\ PrefixCopied(k)
                  /\ SuffixUntouched(k)
                  /\ Len(pending) = 1
                  /\ pending[1].type = "java.lang.ArrayStoreException"

\* C2 witness: a null at index 0 is copied, the non-assignable element at
\* index 1 stops the copy.
C2_Witness ==
    /\ pc = "returned"
    /\ decorators = {ARRAYCOPY_CHECKCAST}
    /\ length = 3
    /\ IsNullAt(0)
    /\ FirstNotAssignable = 1
    /\ DstAt(0) = null_oop
    /\ Len(pending) = 1

\* C3: with neither decorator set the call ends with dst[i] = src[i] for
\* every i < n, whatever the source holds, and raises nothing.
C3_Unchecked ==
    (pc = "returned" /\ decorators = {}) => (FullyCopied /\ pending = <<>>)

\* C3 witness: an unchecked three-element copy of a source holding a null
\* and an element that is not assignable to the destination's type.
C3_Witness ==
    /\ pc = "returned"
    /\ decorators = {}
    /\ length = 3
    /\ \E j \in Range : IsNullAt(j)
    /\ \E j \in Range : NotAssignableAt(j)
    /\ FullyCopied

ArrayStoreRaised ==
    /\ pc = "returned"
    /\ pending # <<>>
    /\ pending[1].type = "java.lang.ArrayStoreException"

\* C6: when an ArrayStoreException is raised, the declared element types
\* alone choose the message: the whole-array text when the destination's
\* element type is no subtype of the source's, the single-element text
\* otherwise; either names the source's declared element type, then the
\* destination's; and the copy stopped at the first non-assignable element
\* whichever text was chosen.
C6_MessageShape ==
    ArrayStoreRaised =>
        LET msg == pending[1].message
        IN  /\ msg[1] = IF ~is_subtype_of(Bound, SType)
                        THEN WholeArrayText ELSE ElementText
            /\ msg[2] = external_name(SType)
            /\ msg[4] = external_name(Bound)
            /\ Len(writes) = FirstNotAssignable
            /\ PrefixCopied(Len(writes))
            /\ SuffixUntouched(Len(writes))

\* C6 witness: a B[] source copied into a String[] destination fails with
\* the whole-array text after one element (a null) was committed.
C6_Witness ==
    /\ ArrayStoreRaised
    /\ ~is_subtype_of(Bound, SType)
    /\ pending[1].message[1] = WholeArrayText
    /\ Len(writes) = 1

\* Scenario B: an Object[] source with exactly one non-String object, at
\* index k, copied into a String[] destination under ARRAYCOPY_CHECKCAST.
ScenarioB(k) ==
    /\ pc = "returned"
    /\ decorators = {ARRAYCOPY_CHECKCAST}
    /\ SType = "Object"
    /\ Bound = "String"
    /\ k \in Range
    /\ \A j \in Range : NotAssignableAt(j) <=> j = k

\* C7 as stated: scenario B fails at index k with the element-mismatch
\* message, which cites the failing element's runtime type and String.
C7_Original ==
    \A k \in Indices : ScenarioB(k) =>
        /\ Len(pending) = 1
        /\ Len(writes) = k
        /\ pending[1].message[1] = ElementText
        /\ Names(pending[1].message, external_name(SrcAt(k).klass))
        /\ Names(pending[1].message, "java.lang.String")

\* C7 amended: scenario B fails at index k with the element-mismatch
\* message, which cites the source array's declared element type,
\* java.lang.Object, and java.lang.String.
C7_ScenarioB ==
    \A k \in Indices : ScenarioB(k) =>
        /\ Len(pending) = 1
        /\ pending[1].type = "java.lang.ArrayStoreException"
        /\ Len(writes) = k
        /\ PrefixCopied(k)
        /\ SuffixUntouched(k)
        /\ pending[1].message =
              <<ElementText, "java.lang.Object",
                "[] to the type of the destination array, ",
                "java.lang.String">>

\* C7 witness: scenario B with a C object at index 2 behind two Strings.
C7_Witness ==
    /\ ScenarioB(2)
    /\ SrcAt(2).klass = "C"
    /\ SrcAt(0).klass = "String"
    /\ SrcAt(1).klass = "String"
    /\ Len(pending) = 1

\* C9 as stated: every element written to the destination is written
\* through the raw-copy primitive, checked path included.
C9_Original ==
    \A q \in 1 .. Len(writes) : writes[q].via = "Raw::oop_arraycopy"

\* C9 amended: on the unchecked path every element is written through the
\* raw-copy primitive, in one call for the whole range; on the checked
\* path every element is written by the loop's own store, *dst = elem, and
\* the raw-copy primitive is not called.
C9_RawCopyOnlyUnchecked ==
    /\ \A q \in 1 .. Len(writes) :
          writes[q].via = IF decorators = {} THEN "Raw::oop_arraycopy"
                          ELSE "*dst = elem"
    /\ (pc = "returned" /\ decorators = {}) => Len(writes) = length

\* C9 witness: a checked copy that committed three elements.
C9_Witness ==
    /\ pc = "returned"
    /\ decorators # {}
    /\ Len(writes) = 3
    /\ writes[3].via = "*dst = elem"

\* A check the decorators enable fails on the element at index j.
FailsAt(j) ==
    \/ ARRAYCOPY_NOTNULL \in decorators /\ IsNullAt(j)
    \/ ARRAYCOPY_CHECKCAST \in decorators /\ NotAssignableAt(j)

\* C10: on the checked path, in every state of the copy, the destination
\* indices written so far are exactly 0 .. i-1, written in that order and
\* once each, i being the loop's current index; every stored element passed
\* the enabled checks; nothing outside those indices, inside or outside the
\* range, differs from before the call; once an exception is pending no
\* further store happens, so the number of committed elements is the index
\* of the first failing element.
C10_PrefixOrder ==
    (pc \in {"loop", "returned"} /\ decorators # {}) =>
        LET i == Len(writes)
        IN  /\ i <= length
            /\ \A q \in 1 .. i : writes[q].addr = dst0 + (q - 1)
            /\ pc = "loop" => (src = src0 + i /\ dst = dst0 + i)
            /\ \A j \in 0 .. (i - 1) : ~FailsAt(j) /\ DstAt(j) = SrcAt(j)
            /\ \A a \in Indices :
                  (a < dst0 \/ a >= dst0 + i) =>
                      dst_obj.body[a] = dst_before.body[a]
            /\ pending # <<>> =>
                  /\ pc = "returned"
                  /\ Len(pending) = 1
                  /\ i < length
                  /\ i = FirstIn({j \in Range : FailsAt(j)})
            /\ (pc = "returned" /\ pending = <<>>) => i = length

\* C10 witness: mid-copy, one of two elements stored and the next one
\* about to fail, the destination range starting past the array's first
\* element.
C10_Witness ==
    /\ pc = "loop"
    /\ decorators = {ARRAYCOPY_CHECKCAST, ARRAYCOPY_NOTNULL}
    /\ length = 2
    /\ dst0 = 1
    /\ Len(writes) = 1
    /\ FailsAt(1)

(* ======================== properties: startup ========================== *)

\* The step is a call of set_barrier_set / of gc_barrier_stubs_init.
IsInitCall == init_calls' = init_calls + 1
IsHookCall == hook_calls' = hook_calls + 1

\* The notification a call of set_barrier_set has just issued.
Issued == notifications'[Len(notifications')]

\* C4: once _barrier_set is non-null every later call of set_barrier_set
\* takes the fatal path and _barrier_set keeps the value the first call
\* installed.  The assert at barrierSet.cpp:38 states this, but it is the
\* only guard and is compiled in only under ASSERT: without it line 39
\* overwrites the singleton and the call returns normally.
C4_Original ==
    [][_barrier_set # NULL =>
          /\ _barrier_set' = _barrier_set
          /\ IsInitCall => vm' = "aborted"]_vars

C8_StubsHook ==
    [][(IsHookCall /\ _barrier_set # NULL) =>
          /\ vm' = "running"
          /\ UNCHANGED <<ASSERT_on, ZERO_on, _barrier_set, on_thread_list,
                         notifications, init_calls, copy_vars>>
          /\ IF barrier_set_assembler(_barrier_set) # NULL
             THEN stubs_init' = stubs_init + 1
             ELSE stubs_init' = stubs_init]_vars

\* C8 witness: in a build with an assembler, one call of the hook has run
\* to completion and asked for the stubs once.
C8_Witness ==
    /\ ~ZERO_on
    /\ _barrier_set # NULL
    /\ hook_calls = 1
    /\ stubs_init = 1
    /\ vm = "running"

=============================================================================
